---- MODULE Spec2Model ----
(***************************************************************************)
(* Model of create_spritesheets.py: the DefaultMale sprite sheet           *)
(* generator.  Frame discovery (get_frame_files), sheet assembly           *)
(* (create_spritesheet) and the batch driver (main) are modelled as one    *)
(* sequential state machine over a small file system.                      *)
(*                                                                         *)
(* File names are sequences of character codes, so that str.startswith,    *)
(* str.endswith and list.sort (code point order) are computed, not         *)
(* assumed.  Pixels are modelled symbolically: a canvas is its size plus   *)
(* the list of paste operations performed on it, and PixelAt reads a       *)
(* pixel back the way Image.paste leaves it (last paste wins, pastes are   *)
(* clipped to the canvas).                                                 *)
(***************************************************************************)
EXTENDS Integers, Sequences, FiniteSets, TLC

VARIABLES
    fs,               \* input tree: source folder -> [exists, dirs]
    outDir,           \* state of <script_dir>/spritesheets: absent | dir | file
    outFiles,         \* output name -> [kind, img] under spritesheets/
    pc,               \* position of the single thread of control
    anim_idx,         \* main: position in ANIMATIONS.items()
    success_count,    \* main: success_count
    retval,           \* value create_spritesheet handed back to main
    results,          \* per output name: outcome of its create_spritesheet call
    summary,          \* the printed "Created n/m" line, or none
    max_frames,       \* create_spritesheet: max_frames
    direction_frames, \* create_spritesheet: direction_frames
    spritesheet,      \* create_spritesheet: spritesheet (the canvas)
    row, col,         \* create_spritesheet: loop indices (1-based here)
    frame,            \* create_spritesheet: path bound to local `frame`
    open_files,       \* set of frame paths whose file object is open
    entry_out,        \* output state when the current call was entered
    run,              \* number of the current invocation of the script
    prev              \* outcome of the previous invocation

vars == <<fs, outDir, outFiles, pc, anim_idx, success_count, retval, results,
          summary, max_frames, direction_frames, spritesheet, row, col, frame,
          open_files, entry_out, run, prev>>

-----------------------------------------------------------------------------
(* Program constants *)

FRAME_WIDTH == 104
FRAME_HEIGHT == 104

DIRECTIONS ==
    <<"south", "south-east", "east", "north-east",
      "north", "north-west", "west", "south-west">>

\* dict in insertion order: <<output name, source folder>>
ANIMATIONS ==
    <<  <<"idle", "breathing-idle">>,
        <<"walk", "walk">>,
        <<"run", "running-6-frames">>  >>

DirNames == {DIRECTIONS[i] : i \in 1..Len(DIRECTIONS)}
OutputNames == {ANIMATIONS[i][1] : i \in 1..Len(ANIMATIONS)}
SourceFolders == {ANIMATIONS[i][2] : i \in 1..Len(ANIMATIONS)}

\* "frame_" and ".png" as code points
FramePrefix == <<102, 114, 97, 109, 101, 95>>
PngSuffix == <<46, 112, 110, 103>>

-----------------------------------------------------------------------------
(* Bounds of the model *)

\* longest directory listing drawn for the frame discovery specification
MaxListing == 3
\* number of times the script is invoked on the same inputs
Runs == 2

-----------------------------------------------------------------------------
(* Python string and list primitives *)

\* s.startswith(p)
startswith(s, p) ==
    /\ Len(s) >= Len(p)
    /\ SubSeq(s, 1, Len(p)) = p

\* s.endswith(p)
endswith(s, p) ==
    /\ Len(s) >= Len(p)
    /\ SubSeq(s, Len(s) - Len(p) + 1, Len(s)) = p

\* a < b on str: code point order, a proper prefix sorts first
RECURSIVE StrLess(_, _)
StrLess(a, b) ==
    IF b = <<>> THEN FALSE
    ELSE IF a = <<>> THEN TRUE
    ELSE IF Head(a) # Head(b) THEN Head(a) < Head(b)
    ELSE StrLess(Tail(a), Tail(b))

\* insert x into the ascending list s, after any equal elements
RECURSIVE InsertSorted(_, _)
InsertSorted(x, s) ==
    IF s = <<>> THEN <<x>>
    ELSE IF StrLess(x, Head(s)) THEN <<x>> \o s
    ELSE <<Head(s)>> \o InsertSorted(x, Tail(s))

RECURSIVE SortFrom(_, _)
SortFrom(s, acc) ==
    IF s = <<>> THEN acc
    ELSE SortFrom(Tail(s), InsertSorted(Head(s), acc))

\* the listing order kept: files.sort() left out
ListSortSkipped(s) == s

\* files.sort(): stable ascending sort
ListSort(s) == SortFrom(s, <<>>)

\* [f for f in names if f.startswith("frame_") and f.endswith(".png")]
RECURSIVE FilterFrames(_)
FilterFrames(names) ==
    IF names = <<>> THEN <<>>
    ELSE IF startswith(Head(names), FramePrefix) /\ endswith(Head(names), PngSuffix)
         THEN <<Head(names)>> \o FilterFrames(Tail(names))
         ELSE FilterFrames(Tail(names))

-----------------------------------------------------------------------------
(* File system *)

\* a directory entry of an animation folder
MissingDir == [kind |-> "missing", listing |-> <<>>]
NotADir == [kind |-> "file", listing |-> <<>>]
Dir(listing) == [kind |-> "dir", listing |-> listing]

\* a file of a direction folder: its name and what decoding it does
File(name, img) == [name |-> name, img |-> img]

\* os.listdir(dir_path): the names, in the order the directory yields them
ListDir(entry) == [i \in 1..Len(entry.listing) |-> entry.listing[i].name]

\* os.path.join(animation_path, direction, f)
JoinPath(source_folder, direction, f) == <<source_folder, direction, f>>

\* the decode behaviour of the file at a frame path
ImgOf(tree, path) ==
    LET entry == tree[path[1]].dirs[path[2]]
        i == CHOOSE j \in 1..Len(entry.listing) : entry.listing[j].name = path[3]
    IN entry.listing[i].img

-----------------------------------------------------------------------------
(* get_frame_files *)

get_frame_files(tree, source_folder, direction) ==
    LET entry == tree[source_folder].dirs[direction] IN
    IF entry.kind = "missing" THEN [raised |-> FALSE, files |-> <<>>]
    ELSE IF entry.kind = "file" THEN [raised |-> TRUE, files |-> <<>>]
    ELSE LET files == ListSort(FilterFrames(ListDir(entry)))
         IN [raised |-> FALSE,
             files |-> [i \in 1..Len(files) |->
                            JoinPath(source_folder, direction, files[i])]]

-----------------------------------------------------------------------------
(* Images *)

\* Image.new("RGBA", (w, h), (0, 0, 0, 0)): nothing pasted yet
NewImage(w, h) == [width |-> w, height |-> h, pastes |-> <<>>]

\* value of the locals `spritesheet` and `frame` before they are bound
NoSheet == NewImage(0, 0)
NoFrame == <<>>

\* pixel size of the image a frame file decodes to
ImageSize(img) ==
    IF img = "wide" THEN <<2 * FRAME_WIDTH, FRAME_HEIGHT>>
    ELSE IF img = "tall" THEN <<FRAME_WIDTH, 2 * FRAME_HEIGHT>>
    ELSE <<FRAME_WIDTH, FRAME_HEIGHT>>

\* Image.open(path) raises: the file is no image (PIL closes the file itself)
OpenRaises(img) == img = "notimage"

\* frame.load() inside paste raises: the image data is truncated
LoadRaises(img) == img = "truncated"

\* a fully transparent pixel, (0, 0, 0, 0)
Transparent == [src |-> <<>>, dx |-> 0, dy |-> 0]

\* spritesheet.paste(frame, (x, y)): the box is copied, clipped to the canvas
PasteInto(sheet, path, size, origin) ==
    [sheet EXCEPT !.pastes =
        Append(@, [x |-> origin[1], y |-> origin[2],
                   w |-> size[1], h |-> size[2], src |-> path])]

\* the pixel of a canvas at (px, py): the last paste covering it wins
PixelAt(sheet, px, py) ==
    LET hits == {i \in 1..Len(sheet.pastes) :
                    /\ sheet.pastes[i].x <= px
                    /\ px < sheet.pastes[i].x + sheet.pastes[i].w
                    /\ sheet.pastes[i].y <= py
                    /\ py < sheet.pastes[i].y + sheet.pastes[i].h}
    IN IF hits = {} THEN Transparent
       ELSE LET i == CHOOSE j \in hits : \A k \in hits : k <= j
            IN [src |-> sheet.pastes[i].src,
                dx |-> px - sheet.pastes[i].x,
                dy |-> py - sheet.pastes[i].y]

-----------------------------------------------------------------------------
(* create_spritesheet: helpers *)

\* the count of the direction visited last, not the maximum
RunningMaxLast(a, b) == b

\* max(max_frames, len(frames))
RunningMax(a, b) == IF a > b THEN a ELSE b

\* the loop of lines 71-75 over DIRECTIONS[1..n]
RECURSIVE DiscoverUpTo(_, _, _)
DiscoverUpTo(tree, source_folder, n) ==
    IF n = 0
    THEN [raised |-> FALSE, max_frames |-> 0,
          direction_frames |-> [d \in DirNames |-> <<>>]]
    ELSE LET before == DiscoverUpTo(tree, source_folder, n - 1)
             got == get_frame_files(tree, source_folder, DIRECTIONS[n])
         IN IF before.raised \/ got.raised
            THEN [before EXCEPT !.raised = TRUE]
            ELSE [raised |-> FALSE,
                  max_frames |-> RunningMax(before.max_frames, Len(got.files)),
                  direction_frames |->
                      [before.direction_frames EXCEPT ![DIRECTIONS[n]] = got.files]]

\* the test of line 77 never taken
NoFramesFoundNever(mf) == mf < 0

\* if max_frames == 0
NoFramesFound(mf) == mf = 0

\* (sheet_width, sheet_height)
SheetSize(mf) == <<mf * FRAME_WIDTH, Len(DIRECTIONS) * FRAME_HEIGHT>>

\* row and column exchanged
PasteOriginSwapped(r, c) == <<(r - 1) * FRAME_WIDTH, (c - 1) * FRAME_HEIGHT>>

\* (x, y) for the 1-based loop position (r, c)
PasteOrigin(r, c) == <<(c - 1) * FRAME_WIDTH, (r - 1) * FRAME_HEIGHT>>

\* positions of the nested loops of lines 89-91 that follow (r, c);
\* <<0, 0>> when both loops are exhausted
NextPos(df, r, c) ==
    LET all == UNION {{<<r2, c2>> : c2 \in 1..Len(df[DIRECTIONS[r2]])} :
                        r2 \in 1..Len(DIRECTIONS)}
        later == {p \in all : p[1] > r \/ (p[1] = r /\ p[2] > c)}
    IN IF later = {} THEN <<0, 0>>
       ELSE CHOOSE p \in later :
                \A q \in later : p[1] < q[1] \/ (p[1] = q[1] /\ p[2] <= q[2])

\* os.makedirs without exist_ok: an existing directory raises too
MakeDirsRaisesIfExists(state) == state # "absent"

\* os.makedirs(..., exist_ok=True) raises: the path exists and is no directory
MakeDirsRaises(state) == state = "file"

\* spritesheet.save(output_path, "PNG") raises: the path is a directory
SaveRaises(target) == target.kind = "dir"

\* every call counted, whatever it returned
CountSuccessAlways(count, ok) == count + 1

\* success_count after `if create_spritesheet(...): success_count += 1`
CountSuccess(count, ok) == IF ok THEN count + 1 ELSE count

NoResults == [n \in OutputNames |-> "none"]
NoSummary == [printed |-> FALSE, succeeded |-> 0, total |-> 0]
NoFrames == [d \in DirNames |-> <<>>]
NoPrev == [valid |-> FALSE, pc |-> "main", results |-> NoResults,
           summary |-> NoSummary, outDir |-> "absent",
           outFiles |-> [n \in OutputNames |-> [kind |-> "absent", img |-> NoSheet]]]

output_name == ANIMATIONS[anim_idx][1]
source_folder == ANIMATIONS[anim_idx][2]

LocalsDropped ==
    /\ max_frames' = 0
    /\ direction_frames' = NoFrames
    /\ spritesheet' = NoSheet
    /\ row' = 0
    /\ col' = 0
    /\ frame' = NoFrame
    /\ open_files' = {}

LocalsUnchanged ==
    UNCHANGED <<max_frames, direction_frames, spritesheet, row, col, frame, open_files>>

\* an exception nothing catches: it leaves create_spritesheet and main
Uncaught ==
    /\ pc' = "crashed"
    /\ results' = [results EXCEPT ![output_name] = "raised"]
    /\ LocalsDropped

-----------------------------------------------------------------------------
(* main *)

\* lines 108-117: the banner, then success_count = 0
MainBegin ==
    /\ pc = "main"
    /\ success_count' = 0
    /\ anim_idx' = 1
    /\ pc' = "loop"
    /\ UNCHANGED <<fs, outDir, outFiles, retval, results, summary, entry_out, run, prev>>
    /\ LocalsUnchanged

\* lines 118-120: the next item of ANIMATIONS, and the call
MainCall ==
    /\ pc = "loop"
    /\ anim_idx <= Len(ANIMATIONS)
    /\ entry_out' = [outDir |-> outDir, outFiles |-> outFiles]
    /\ pc' = "exists"
    /\ UNCHANGED <<fs, outDir, outFiles, anim_idx, success_count, retval, results,
                   summary, run, prev>>
    /\ LocalsUnchanged

\* lines 120-121: the value returned decides the increment
MainCount ==
    /\ pc = "returned"
    /\ success_count' = CountSuccess(success_count, retval)
    /\ anim_idx' = anim_idx + 1
    /\ pc' = "loop"
    /\ UNCHANGED <<fs, outDir, outFiles, retval, results, summary, entry_out, run, prev>>
    /\ LocalsUnchanged

\* lines 123-126: the loop is exhausted, the summary is printed
MainSummary ==
    /\ pc = "loop"
    /\ anim_idx > Len(ANIMATIONS)
    /\ summary' = [printed |-> TRUE, succeeded |-> success_count,
                   total |-> Len(ANIMATIONS)]
    /\ pc' = "done"
    /\ UNCHANGED <<fs, outDir, outFiles, anim_idx, success_count, retval, results,
                   entry_out, run, prev>>
    /\ LocalsUnchanged

-----------------------------------------------------------------------------
(* create_spritesheet *)

\* return <value>: the locals go away, and with them every file object
ReturnValue(v) ==
    /\ retval' = v
    /\ results' = [results EXCEPT ![output_name] = IF v THEN "True" ELSE "False"]
    /\ pc' = "returned"
    /\ LocalsDropped

\* lines 58-65
CheckFolder ==
    /\ pc = "exists"
    /\ IF ~fs[source_folder].exists
       THEN ReturnValue(FALSE)
       ELSE /\ pc' = "discover"
            /\ UNCHANGED <<retval, results>>
            /\ LocalsUnchanged
    /\ UNCHANGED <<fs, outDir, outFiles, anim_idx, success_count, summary,
                   entry_out, run, prev>>

\* lines 67-79
Discover ==
    /\ pc = "discover"
    /\ LET found == DiscoverUpTo(fs, source_folder, Len(DIRECTIONS)) IN
       IF found.raised
       THEN Uncaught /\ UNCHANGED retval
       ELSE IF NoFramesFound(found.max_frames)
       THEN ReturnValue(FALSE)
       ELSE /\ max_frames' = found.max_frames
            /\ direction_frames' = found.direction_frames
            /\ pc' = "new"
            /\ UNCHANGED <<retval, results, spritesheet, row, col, frame, open_files>>
    /\ UNCHANGED <<fs, outDir, outFiles, anim_idx, success_count, summary,
                   entry_out, run, prev>>

\* what follows the loop position (r, c): the next frame, or line 100
Advance(r, c) ==
    LET next == NextPos(direction_frames, r, c) IN
    /\ row' = next[1]
    /\ col' = next[2]
    /\ pc' = IF next = <<0, 0>> THEN "makedirs" ELSE "open"

\* lines 81-91
NewSheet ==
    /\ pc = "new"
    /\ spritesheet' = NewImage(SheetSize(max_frames)[1], SheetSize(max_frames)[2])
    /\ Advance(1, 0)
    /\ UNCHANGED <<fs, outDir, outFiles, anim_idx, success_count, retval, results,
                   summary, entry_out, run, prev, max_frames, direction_frames,
                   frame, open_files>>

\* line 93, right-hand side: Image.open(frame_path)
OpenFrame ==
    /\ pc = "open"
    /\ LET path == direction_frames[DIRECTIONS[row]][col] IN
       IF OpenRaises(ImgOf(fs, path))
       THEN \* except Exception (line 97): `frame` keeps its old binding
            /\ Advance(row, col)
            /\ UNCHANGED open_files
       ELSE /\ open_files' = open_files \cup {path}
            /\ pc' = "bind"
            /\ UNCHANGED <<row, col>>
    /\ UNCHANGED <<fs, outDir, outFiles, anim_idx, success_count, retval, results,
                   summary, entry_out, run, prev, max_frames, direction_frames,
                   spritesheet, frame>>

\* line 93, the assignment: the image `frame` was bound to loses its last
\* reference, which closes its file if it was still open
BindFrame ==
    /\ pc = "bind"
    /\ LET path == direction_frames[DIRECTIONS[row]][col] IN
       /\ frame' = path
       /\ open_files' = (open_files \ {frame}) \cup {path}
    /\ pc' = "paste"
    /\ UNCHANGED <<fs, outDir, outFiles, anim_idx, success_count, retval, results,
                   summary, entry_out, run, prev, max_frames, direction_frames,
                   spritesheet, row, col>>

\* lines 94-98
PasteFrame ==
    /\ pc = "paste"
    /\ IF LoadRaises(ImgOf(fs, frame))
       THEN \* except Exception (line 97): the file of `frame` stays open
            UNCHANGED <<spritesheet, open_files>>
       ELSE \* the image is loaded (its file is closed) and copied
            /\ spritesheet' = PasteInto(spritesheet, frame,
                                        ImageSize(ImgOf(fs, frame)),
                                        PasteOrigin(row, col))
            /\ open_files' = open_files \ {frame}
    /\ Advance(row, col)
    /\ UNCHANGED <<fs, outDir, outFiles, anim_idx, success_count, retval, results,
                   summary, entry_out, run, prev, max_frames, direction_frames, frame>>

\* line 101
MakeDirs ==
    /\ pc = "makedirs"
    /\ IF MakeDirsRaises(outDir)
       THEN Uncaught /\ UNCHANGED outDir
       ELSE /\ outDir' = "dir"
            /\ pc' = "save"
            /\ UNCHANGED results
            /\ LocalsUnchanged
    /\ UNCHANGED <<fs, outFiles, anim_idx, success_count, retval, summary,
                   entry_out, run, prev>>

\* lines 102-105
SaveSheet ==
    /\ pc = "save"
    /\ IF SaveRaises(outFiles[output_name])
       THEN Uncaught /\ UNCHANGED <<outFiles, retval>>
       ELSE /\ outFiles' = [outFiles EXCEPT ![output_name] =
                                [kind |-> "image", img |-> spritesheet]]
            /\ ReturnValue(TRUE)
    /\ UNCHANGED <<fs, outDir, anim_idx, success_count, summary, entry_out, run, prev>>

-----------------------------------------------------------------------------
(* The script is run again on the same tree (lines 128-129) *)

Rerun ==
    /\ pc \in {"done", "crashed"}
    /\ run < Runs
    /\ prev' = [valid |-> TRUE, pc |-> pc, results |-> results, summary |-> summary,
                outDir |-> outDir, outFiles |-> outFiles]
    /\ run' = run + 1
    /\ pc' = "main"
    /\ anim_idx' = 0
    /\ success_count' = 0
    /\ retval' = FALSE
    /\ results' = NoResults
    /\ summary' = NoSummary
    /\ entry_out' = [outDir |-> outDir, outFiles |-> outFiles]
    /\ UNCHANGED <<fs, outDir, outFiles>>
    /\ LocalsDropped

Next ==
    \/ MainBegin
    \/ MainCall
    \/ MainCount
    \/ MainSummary
    \/ CheckFolder
    \/ Discover
    \/ NewSheet
    \/ OpenFrame
    \/ BindFrame
    \/ PasteFrame
    \/ MakeDirs
    \/ SaveSheet
    \/ Rerun

-----------------------------------------------------------------------------
(* Inputs: file names, directory contents, trees *)

\* "frame_00.png", "frame_01.png", "frame_2.png", "frame_10.png"
f00 == FramePrefix \o <<48, 48>> \o PngSuffix
f01 == FramePrefix \o <<48, 49>> \o PngSuffix
f2 == FramePrefix \o <<50>> \o PngSuffix
f10 == FramePrefix \o <<49, 48>> \o PngSuffix
\* "frame_.png", "frame_00.txt", "Frame_00.png", "notes.txt"
fbare == FramePrefix \o PngSuffix
ftxt == FramePrefix \o <<48, 48, 46, 116, 120, 116>>
fcap == <<70, 114, 97, 109, 101, 95, 48, 48>> \o PngSuffix
notes == <<110, 111, 116, 101, 115, 46, 116, 120, 116>>

NameUniverse == {f00, f01, f2, f10, fbare, ftxt, fcap, notes}

\* every order in which a directory can yield up to MaxListing distinct names
Listings ==
    UNION {{s \in [1..n -> NameUniverse] : \A i, j \in 1..n : s[i] = s[j] => i = j} :
              n \in 0..MaxListing}

Folder(dirs) == [exists |-> TRUE, dirs |-> dirs]
MissingFolder == [exists |-> FALSE, dirs |-> [d \in DirNames |-> MissingDir]]

\* direction folders with frames in them
EntriesA ==
    { Dir(<<File(f01, "ok"), File(f00, "ok")>>),
      Dir(<<File(f00, "truncated"), File(f01, "ok")>>),
      Dir(<<File(f00, "tall")>>),
      Dir(<<File(f00, "wide"), File(notes, "ok")>>),
      Dir(<<File(f01, "truncated"), File(f00, "notimage")>>),
      Dir(<<File(f2, "ok"), File(f10, "ok"), File(f00, "ok")>>) }

EntriesB ==
    { Dir(<<File(f00, "ok")>>),
      Dir(<<File(f00, "ok"), File(f01, "ok")>>),
      Dir(<<File(ftxt, "ok")>>),
      NotADir }

Defaults == {MissingDir, Dir(<<>>)}

\* an animation folder: at most one direction from EntriesA, at most one
\* other from EntriesB, the rest missing or empty
SheetLayouts ==
    {[d \in DirNames |-> IF d = d1 THEN e1 ELSE IF d = d2 THEN e2 ELSE dflt] :
        d1 \in DirNames, e1 \in EntriesA \cup Defaults, d2 \in DirNames,
        e2 \in EntriesB \cup Defaults, dflt \in Defaults}

SimpleLayout == [d \in DirNames |-> IF d = "south" THEN Dir(<<File(f00, "ok")>>)
                                     ELSE MissingDir]

\* trees that exercise one call of create_spritesheet in depth
SheetTrees ==
    {[sf \in SourceFolders |->
        IF sf = "breathing-idle" THEN Folder(layout)
        ELSE IF sf = "walk" THEN Folder(SimpleLayout)
        ELSE MissingFolder] : layout \in SheetLayouts}

BatchFolders ==
    { MissingFolder,
      Folder([d \in DirNames |-> MissingDir]),
      Folder(SimpleLayout),
      Folder([d \in DirNames |->
                IF d = "east" THEN Dir(<<File(f01, "truncated"), File(f00, "ok")>>)
                ELSE IF d = "north" THEN Dir(<<File(f00, "notimage")>>)
                ELSE Dir(<<>>)]),
      Folder([d \in DirNames |-> IF d = "west" THEN NotADir ELSE SimpleLayout[d]]) }

\* trees that exercise the batch: every combination of per-animation outcomes
BatchTrees == [SourceFolders -> BatchFolders]

Absent == [kind |-> "absent", img |-> NoSheet]
\* a sheet left by an earlier run on other frames
Stale == [kind |-> "image", img |-> NewImage(FRAME_WIDTH, Len(DIRECTIONS) * FRAME_HEIGHT)]
\* a directory where the sheet is to be written
Blocked == [kind |-> "dir", img |-> NoSheet]

\* states of <script_dir>/spritesheets before the first run
OutStates ==
    { [outDir |-> "absent", outFiles |-> [n \in OutputNames |-> Absent]],
      [outDir |-> "file", outFiles |-> [n \in OutputNames |-> Absent]],
      [outDir |-> "dir", outFiles |-> [n \in OutputNames |-> Absent]],
      [outDir |-> "dir", outFiles |-> [n \in OutputNames |-> Stale]] }
    \cup {[outDir |-> "dir",
           outFiles |-> [n \in OutputNames |-> IF n = b THEN Blocked ELSE Absent]] :
            b \in OutputNames}

InitControl ==
    /\ pc = "main"
    /\ anim_idx = 0
    /\ success_count = 0
    /\ retval = FALSE
    /\ results = NoResults
    /\ summary = NoSummary
    /\ max_frames = 0
    /\ direction_frames = NoFrames
    /\ spritesheet = NoSheet
    /\ row = 0
    /\ col = 0
    /\ frame = NoFrame
    /\ open_files = {}
    /\ run = 1
    /\ prev = NoPrev

Init ==
    /\ \/ fs \in BatchTrees /\ \E o \in OutStates :
            outDir = o.outDir /\ outFiles = o.outFiles
       \/ fs \in SheetTrees /\ \E o \in OutStates :
            /\ o.outDir = "absent"
            /\ outDir = o.outDir /\ outFiles = o.outFiles
    /\ entry_out = [outDir |-> outDir, outFiles |-> outFiles]
    /\ InitControl

Spec == Init /\ [][Next]_vars

-----------------------------------------------------------------------------
(* Frame discovery on its own: get_frame_files over every listing *)

FilesTrees ==
    {[sf \in SourceFolders |->
        IF sf = "walk"
        THEN Folder([d \in DirNames |-> IF d = "south" THEN e ELSE MissingDir])
        ELSE MissingFolder] :
        e \in {MissingDir, NotADir}
              \cup {Dir([i \in 1..Len(l) |-> File(l[i], "ok")]) : l \in Listings}}

InitFiles ==
    /\ fs \in FilesTrees
    /\ outDir = "absent"
    /\ outFiles = [n \in OutputNames |-> Absent]
    /\ entry_out = [outDir |-> outDir, outFiles |-> outFiles]
    /\ InitControl

\* get_frame_files(animation_path, direction) for the walk folder
GetFrameFiles ==
    /\ pc = "main"
    /\ \E r \in 1..Len(DIRECTIONS) :
        LET got == get_frame_files(fs, "walk", DIRECTIONS[r]) IN
        /\ row' = r
        /\ pc' = IF got.raised THEN "crashed" ELSE "listed"
        /\ direction_frames' = [direction_frames EXCEPT ![DIRECTIONS[r]] = got.files]
    /\ UNCHANGED <<fs, outDir, outFiles, anim_idx, success_count, retval, results,
                   summary, max_frames, spritesheet, col, frame, open_files,
                   entry_out, run, prev>>

NextFiles == GetFrameFiles

SpecFiles == InitFiles /\ [][NextFiles]_vars

-----------------------------------------------------------------------------
(* Vocabulary of the properties, computed from the tree and not from the   *)
(* locals of the program                                                   *)

\* the fixed row order the consumer of the sheets expects
RowOrder ==
    <<"south", "south-east", "east", "north-east",
      "north", "north-west", "west", "south-west">>

RowOf(direction) == CHOOSE r \in 1..Len(RowOrder) : RowOrder[r] = direction

SourceOf(n) == ANIMATIONS[CHOOSE i \in 1..Len(ANIMATIONS) : ANIMATIONS[i][1] = n][2]

\* name = "frame_" + anything + ".png"
IsFrameName(name) ==
    LET k == Len(name) - Len(FramePrefix) - Len(PngSuffix) IN
    /\ k >= 0
    /\ name = FramePrefix \o SubSeq(name, Len(FramePrefix) + 1, Len(FramePrefix) + k)
                          \o PngSuffix

\* the frame names a direction folder holds
FrameNames(sf, d) ==
    IF fs[sf].dirs[d].kind # "dir" THEN {}
    ELSE {fs[sf].dirs[d].listing[i].name : i \in 1..Len(fs[sf].dirs[d].listing)}
         \cap {name \in NameUniverse : IsFrameName(name)}

\* 1-based position of a frame name among the frame names of its folder
SortedPos(sf, d, name) ==
    1 + Cardinality({other \in FrameNames(sf, d) : StrLess(other, name)})

\* the largest frame count among the 8 directions
MaxCount(sf) ==
    CHOOSE m \in 0..Cardinality(NameUniverse) :
        /\ \A d \in DirNames : Cardinality(FrameNames(sf, d)) <= m
        /\ \E d \in DirNames : Cardinality(FrameNames(sf, d)) = m

\* frames whose file does not decode
Undecodable(sf, d) ==
    {name \in FrameNames(sf, d) :
        ImgOf(fs, <<sf, d, name>>) \in {"notimage", "truncated"}}

NoListingRaises(sf) == \A d \in DirNames : fs[sf].dirs[d].kind # "file"

\* control is inside create_spritesheet, a canvas exists
SheetExists == pc \in {"open", "bind", "paste", "makedirs", "save"}
\* control is inside create_spritesheet
InCall == pc \in {"exists", "discover", "new"} \/ SheetExists

OutputUntouched == outDir = entry_out.outDir /\ outFiles = entry_out.outFiles

-----------------------------------------------------------------------------
(* C2 *)

\* C2: whenever create_spritesheet has created its canvas, at least one
\* direction of the animation holds a frame, the canvas is (largest frame
\* count among the 8 directions) x 104 pixels wide and 8 x 104 = 832 pixels
\* high, and a sheet written by this run has the same size.
C2_CanvasSize ==
    /\ SheetExists =>
        /\ MaxCount(source_folder) >= 1
        /\ spritesheet.width = MaxCount(source_folder) * 104
        /\ spritesheet.height = 832
    /\ \A n \in OutputNames : results[n] = "True" =>
        /\ outFiles[n].kind = "image"
        /\ outFiles[n].img.width = MaxCount(SourceOf(n)) * 104
        /\ outFiles[n].img.height = 832

\* the maximum (3 frames) is held by a direction that is not the first, the
\* first direction is missing and a later one holds fewer frames
C2_Witness ==
    /\ pc = "makedirs"
    /\ spritesheet.width = 312
    /\ fs[source_folder].dirs["south"].kind = "missing"
    /\ Cardinality(FrameNames(source_folder, "north")) = 3
    /\ Cardinality(FrameNames(source_folder, "south-west")) = 1

-----------------------------------------------------------------------------
(* C3 *)

\* every paste on the canvas is of a discovered frame, at the origin its
\* direction and sorted position give, and no frame is pasted twice
PlacedRight(img, sf) ==
    /\ \A i \in 1..Len(img.pastes) :
        LET p == img.pastes[i] IN
        /\ p.src[1] = sf
        /\ p.src[3] \in FrameNames(sf, p.src[2])
        /\ p.x = (SortedPos(sf, p.src[2], p.src[3]) - 1) * 104
        /\ p.y = (RowOf(p.src[2]) - 1) * 104
    /\ \A i, j \in 1..Len(img.pastes) : img.pastes[i].src = img.pastes[j].src => i = j

\* every frame that decodes has been pasted
AllPlaced(img, sf) ==
    \A d \in DirNames : \A name \in FrameNames(sf, d) \ Undecodable(sf, d) :
        \E i \in 1..Len(img.pastes) : img.pastes[i].src = <<sf, d, name>>

\* C3: a frame is only ever pasted with its origin at (i x 104, row x 104), i
\* its 0-based position in the sorted frames of its direction and row the
\* 0-based position of the direction in the fixed order; once the loops are
\* done, and in every sheet written, each frame that decodes is at that origin.
C3_Placement ==
    /\ SheetExists => PlacedRight(spritesheet, source_folder)
    /\ pc \in {"makedirs", "save"} => AllPlaced(spritesheet, source_folder)
    /\ \A n \in OutputNames : results[n] = "True" =>
        /\ PlacedRight(outFiles[n].img, SourceOf(n))
        /\ AllPlaced(outFiles[n].img, SourceOf(n))

\* three frames listed out of order, in the last row: the third in sorted
\* order, "frame_2.png", is at (208, 728)
C3_Witness ==
    /\ pc = "save"
    /\ \E i \in 1..Len(spritesheet.pastes) :
        /\ spritesheet.pastes[i].src = <<source_folder, "south-west", f2>>
        /\ spritesheet.pastes[i].x = 208
        /\ spritesheet.pastes[i].y = 728

-----------------------------------------------------------------------------
(* C5 *)

\* C5: for an animation whose folder exists and whose 8 directions hold no
\* frame, create_spritesheet never gets past the max_frames test, and when it
\* has returned it has returned False with the output directory and every
\* output file exactly as they were when it was called.
C5_NoFramesNoOutput ==
    (InCall \/ pc = "returned") /\ fs[source_folder].exists
        /\ MaxCount(source_folder) = 0
    => /\ pc \in {"exists", "discover", "returned"}
       /\ OutputUntouched
       /\ pc = "returned" => ~retval /\ results[output_name] = "False"

\* a folder whose directories exist but hold no frame (one holds only
\* "frame_00.txt") has returned False, and spritesheets/ is still absent
C5_Witness ==
    /\ pc = "returned"
    /\ fs[source_folder].exists
    /\ MaxCount(source_folder) = 0
    /\ \E d \in DirNames : /\ fs[source_folder].dirs[d].kind = "dir"
                           /\ fs[source_folder].dirs[d].listing # <<>>
    /\ ~retval
    /\ outDir = "absent"

-----------------------------------------------------------------------------
(* C6 *)

Missing == {n \in OutputNames : ~fs[SourceOf(n)].exists}
Succeeded == {n \in OutputNames : results[n] = "True"}

\* C6: a call for an absent source folder never reaches frame discovery and
\* returns False with the output untouched; the summary, when printed, counts
\* exactly the calls that returned True, out of 3; so with exactly one folder
\* absent and the other two sheets created it says 2/3.
C6_SummaryCounts ==
    /\ (InCall \/ pc = "returned") /\ ~fs[source_folder].exists
        => /\ pc \in {"exists", "returned"}
           /\ OutputUntouched
           /\ pc = "returned" => ~retval /\ results[output_name] = "False"
    /\ pc = "done" =>
        /\ summary.printed
        /\ summary.total = 3
        /\ summary.succeeded = Cardinality(Succeeded)
        /\ (Cardinality(Missing) = 1 /\ Succeeded = OutputNames \ Missing)
            => summary.succeeded = summary.total - 1

\* exactly one folder (not the last) is absent, the other two sheets were
\* created, the summary says 2/3
C6_Witness ==
    /\ pc = "done"
    /\ Missing = {"walk"}
    /\ Succeeded = {"idle", "run"}
    /\ summary.succeeded = 2
    /\ summary.total = 3

-----------------------------------------------------------------------------
(* C9 *)

\* C9: when the script has been run again on the same tree, the second run
\* ends the way the first did: the same outcome of every create_spritesheet
\* call, the same summary, and the same output directory and sheets, whatever
\* the first run found in spritesheets/ and left there.
C9_Idempotent ==
    prev.valid /\ pc \in {"done", "crashed"}
    => /\ pc = prev.pc
       /\ results = prev.results
       /\ summary = prev.summary
       /\ outDir = prev.outDir
       /\ outFiles = prev.outFiles

\* a second run has completed over the directory and the sheets the first
\* run left, and has written a sheet with pasted frames again
C9_Witness ==
    /\ prev.valid
    /\ pc = "done"
    /\ prev.outDir = "dir"
    /\ \E n \in OutputNames :
        /\ results[n] = "True"
        /\ outFiles[n].img.pastes # <<>>
        /\ prev.outFiles[n] = outFiles[n]

-----------------------------------------------------------------------------
(* C8 *)

\* C8: for an existing direction folder get_frame_files returns the paths of
\* exactly the entries named "frame_" ... ".png", each once, in ascending
\* order of file name, whatever the order of the listing; for a path that
\* does not exist it returns the empty sequence, without raising.
C8_Discovery ==
    pc \in {"listed", "crashed"} =>
        LET d == DIRECTIONS[row]
            entry == fs["walk"].dirs[d]
            got == direction_frames[d]
        IN /\ entry.kind = "missing" => pc = "listed" /\ got = <<>>
           /\ entry.kind = "dir" =>
                /\ pc = "listed"
                /\ {got[i] : i \in 1..Len(got)}
                     = {<<"walk", d, name>> : name \in FrameNames("walk", d)}
                /\ Len(got) = Cardinality(FrameNames("walk", d))
                /\ \A i, j \in 1..Len(got) : i < j => StrLess(got[i][3], got[j][3])

\* the listing yields "frame_2.png", "notes.txt", "frame_10.png" in that
\* order; the result is frame_10.png, frame_2.png
C8_Witness ==
    /\ pc = "listed"
    /\ row = 1
    /\ ListDir(fs["walk"].dirs["south"]) = <<f2, notes, f10>>
    /\ direction_frames["south"] = <<  <<"walk", "south", f10>>,
                                       <<"walk", "south", f2>>  >>

-----------------------------------------------------------------------------
(* C1 *)

\* C1: whatever the per-animation outcomes (missing source folder, no
\* frames, frame decode error, output write error), the batch is never ended
\* by an exception: every run that stops has called create_spritesheet for
\* all three animations, each call returned True or False, an animation whose
\* output could not be written returned False, and the summary was printed.
C1_BatchNeverAborts ==
    (\A sf \in SourceFolders : NoListingRaises(sf)) =>
        /\ pc # "crashed"
        /\ \A n \in OutputNames : results[n] # "raised"
        /\ pc = "done" =>
            /\ summary.printed
            /\ \A n \in OutputNames : results[n] \in {"True", "False"}

-----------------------------------------------------------------------------
(* C4 *)

\* the pixels at the two corners of cell (r, c), both 1-based
CellCorners(img, r, c) ==
    << PixelAt(img, (c - 1) * 104, (r - 1) * 104),
       PixelAt(img, c * 104 - 1, r * 104 - 1) >>

CellTransparent(img, r, c) == CellCorners(img, r, c) = <<Transparent, Transparent>>

\* the cell is the image of the frame of its direction and column
CellHoldsFrame(img, sf, r, c) ==
    \E name \in FrameNames(sf, RowOrder[r]) :
        /\ SortedPos(sf, RowOrder[r], name) = c
        /\ CellCorners(img, r, c) =
            << [src |-> <<sf, RowOrder[r], name>>, dx |-> 0, dy |-> 0],
               [src |-> <<sf, RowOrder[r], name>>, dx |-> 103, dy |-> 103] >>

\* C4: in every sheet written, each cell holds the content of the one frame
\* of its direction and column or is fully transparent; the cells of a
\* direction from its frame count on (all of them for a direction without
\* frames) are transparent.
C4_CellsHoldOneFrame ==
    \A n \in OutputNames : results[n] = "True" =>
        LET img == outFiles[n].img
            sf == SourceOf(n)
        IN \A r \in 1..Len(RowOrder) : \A c \in 1..MaxCount(sf) :
            /\ CellHoldsFrame(img, sf, r, c) \/ CellTransparent(img, r, c)
            /\ c > Cardinality(FrameNames(sf, RowOrder[r]))
                => CellTransparent(img, r, c)

-----------------------------------------------------------------------------
(* C7 *)

\* C7: once create_spritesheet has been called for an animation that has
\* frames, some of which do not decode, and the call is over, it has returned
\* True and written a sheet of the usual size in which the cell of each
\* undecodable frame is transparent and every other frame is at its own cell.
C7_DecodeFailureSkipsCell ==
    \A n \in OutputNames :
        LET sf == SourceOf(n) IN
        /\ results[n] # "none"
        /\ fs[sf].exists
        /\ NoListingRaises(sf)
        /\ \E d \in DirNames : Undecodable(sf, d) # {}
        => /\ results[n] = "True"
           /\ outFiles[n].kind = "image"
           /\ outFiles[n].img.width = MaxCount(sf) * 104
           /\ outFiles[n].img.height = 832
           /\ PlacedRight(outFiles[n].img, sf)
           /\ AllPlaced(outFiles[n].img, sf)
           /\ \A d \in DirNames : \A name \in Undecodable(sf, d) :
                CellTransparent(outFiles[n].img, RowOf(d), SortedPos(sf, d, name))

-----------------------------------------------------------------------------
(* C10 *)

\* C10: at most one frame file is open at any time, none is open when the
\* next frame is about to be opened, and none is open outside the frame loop
\* of create_spritesheet.
C10_FramesReleased ==
    /\ Cardinality(open_files) <= 1
    /\ pc = "open" => open_files = {}
    /\ pc \notin {"open", "bind", "paste"} => open_files = {}

====
